---- MODULE Spec2Model ----
(***************************************************************************)
(* Model of src/store/modules/stocks.ts: the stocks slice of the Zakat     *)
(* calculator store (createStocksSlice) and the passive-investment state   *)
(* migration (migratePassiveInvestments).                                  *)
(*                                                                         *)
(* JavaScript values are records [t, n, s]: t is the value's kind, n its   *)
(* integer payload and s its string payload, so that values of different   *)
(* kinds can be compared.  Money is counted in mills (1/1000 of a currency *)
(* unit) with exact decimal arithmetic; shares are whole numbers.  Binary  *)
(* floating point error is not modelled.                                   *)
(***************************************************************************)
EXTENDS Integers, Sequences, FiniteSets, Bags, TLC

(***************************************************************************)
(* JavaScript values                                                       *)
(***************************************************************************)
Undef == [t |-> "undefined", n |-> 0, s |-> ""]
Null == [t |-> "null", n |-> 0, s |-> ""]
Bool(b) == [t |-> "boolean", n |-> IF b THEN 1 ELSE 0, s |-> ""]
Num(k) == [t |-> "number", n |-> k, s |-> ""]
NaN == [t |-> "number", n |-> 0, s |-> "NaN"]
Infinity == [t |-> "number", n |-> 0, s |-> "Infinity"]
Str(x) == [t |-> "string", n |-> 0, s |-> x]
\* The ISO-8601 text of instant tau (Date.prototype.toISOString).
IsoDate(tau) == [t |-> "string", n |-> tau, s |-> "ISO"]
\* An array / an object, known by its identity k.
Arr(k) == [t |-> "array", n |-> k, s |-> ""]
Obj(k) == [t |-> "object", n |-> k, s |-> ""]

\* typeof v
TypeOf(v) == IF v.t \in {"null", "array"} THEN "object" ELSE v.t

\* ToBoolean(v): what !v, v || d and `if (v)` test.
Truthy(v) ==
  CASE v.t \in {"undefined", "null"} -> FALSE
    [] v.t = "boolean" -> v.n = 1
    [] v.t = "number" -> (v.s = "" /\ v.n # 0) \/ v.s = "Infinity"
    [] v.t = "string" -> ~(v.s = "" /\ v.n = 0)
    [] OTHER -> TRUE

\* Number.isFinite(v); also typeof v === 'number' && isFinite(v).
IsFinite(v) == v.t = "number" /\ v.s = ""

\* v || d
OrElse(v, d) == IF Truthy(v) THEN v ELSE d

\* shares * price for a whole number of shares and a price in mills.
Times(a, b) ==
  CASE a.t # "number" \/ b.t # "number" -> NaN
    [] a.s = "NaN" \/ b.s = "NaN" -> NaN
    [] a.s = "Infinity" /\ b.s = "Infinity" -> Infinity
    [] a.s = "Infinity" -> IF b.n = 0 THEN NaN ELSE Infinity
    [] b.s = "Infinity" -> IF a.n = 0 THEN NaN ELSE Infinity
    [] OTHER -> Num(a.n * b.n)

\* a + b on numbers.
Plus(a, b) ==
  CASE a.t # "number" \/ b.t # "number" -> NaN
    [] a.s = "NaN" \/ b.s = "NaN" -> NaN
    [] a.s = "Infinity" \/ b.s = "Infinity" -> Infinity
    [] OTHER -> Num(a.n + b.n)

\* roundCurrency: Math.round to two decimals (10 mills), halves upwards.
RoundCurrency(v) ==
  CASE v.t # "number" -> NaN
    [] v.s # "" -> v
    [] OTHER -> Num(((v.n + 5) \div 10) * 10)

\* ZAKAT_RATE, 2.5%, in thousandths.
ZAKAT_RATE == 25

\* roundCurrency(v * ZAKAT_RATE)
ZakatOn(v) ==
  CASE v.t # "number" -> NaN
    [] v.s # "" -> v
    [] OTHER -> Num(((v.n * ZAKAT_RATE + 5000) \div 10000) * 10)

(***************************************************************************)
(* Symbols are sequences of character codes.                               *)
(***************************************************************************)
UpperChar(c) == IF c \in 97..122 THEN c - 32 ELSE c

\* String.prototype.toUpperCase
ToUpperCase(sym) == [i \in 1..Len(sym) |-> UpperChar(sym[i])]

(***************************************************************************)
(* migratePassiveInvestments                                               *)
(***************************************************************************)
NoHawlStatus == [t |-> "undefined", isComplete |-> Undef, startDate |-> Undef, endDate |-> Undef]
NoDisplayProperties == [t |-> "undefined", currency |-> Undef, method |-> Undef, totalLabel |-> Undef]

\* The value `undefined` where a passive-investment state is expected.
UndefinedState ==
  [t |-> "undefined", version |-> Undef, investments |-> Undef, method |-> Undef,
   marketValue |-> Undef, zakatableValue |-> Undef, companyData |-> Undef,
   hawlStatus |-> NoHawlStatus, displayProperties |-> NoDisplayProperties]

NullState == [UndefinedState EXCEPT !.t = "null"]

\* [{id: Date.now().toString(), name: '', shares: 0, pricePerShare: 0, marketValue: 0}]
PlaceholderRows(now) == [t |-> "array", n |-> now, s |-> "placeholder"]

\* typeof m === 'string' && ['quick', 'detailed'].includes(m) ? m : 'quick'
SanitizeMethod(m) == IF m \in {Str("quick"), Str("detailed")} THEN m ELSE Str("quick")

\* typeof v === 'number' ? v : 0
SanitizeNumber(v) == IF TypeOf(v) = "number" THEN v ELSE Num(0)

\* state.method === 'quick' ? '30% Rule' : 'CRI Method'
MethodLabel(m) == IF m = Str("quick") THEN Str("30% Rule") ELSE Str("CRI Method")

\* state.method === 'quick' ? 'Total Investments' : 'Total Company Assets'
TotalLabel(m) == IF m = Str("quick") THEN Str("Total Investments") ELSE Str("Total Company Assets")

MigrateUnversioned(state, now) ==
  [t |-> "object",
   version |-> Str("2.0"),
   investments |-> IF state.investments.t = "array" THEN state.investments ELSE PlaceholderRows(now),
   method |-> SanitizeMethod(state.method),
   marketValue |-> SanitizeNumber(state.marketValue),
   zakatableValue |-> SanitizeNumber(state.zakatableValue),
   companyData |-> OrElse(state.companyData, Undef),
   hawlStatus |-> [t |-> "object", isComplete |-> Bool(FALSE), startDate |-> IsoDate(now), endDate |-> Undef],
   displayProperties |-> [t |-> "object", currency |-> Str("USD"),
                          method |-> MethodLabel(state.method),
                          totalLabel |-> TotalLabel(state.method)]]

MigrateV1Unguarded(state, now) ==
  [MigrateUnversioned(state, now) EXCEPT !.marketValue = state.marketValue,
                                         !.zakatableValue = state.zakatableValue,
                                         !.companyData = state.companyData]

MigrateV1(state, now) ==
  [t |-> "object",
   version |-> Str("2.0"),
   investments |-> IF state.investments.t = "array" THEN state.investments ELSE PlaceholderRows(now),
   method |-> SanitizeMethod(state.method),
   marketValue |-> SanitizeNumber(state.marketValue),
   zakatableValue |-> SanitizeNumber(state.zakatableValue),
   companyData |-> state.companyData,
   hawlStatus |-> [t |-> "object", isComplete |-> Bool(FALSE), startDate |-> IsoDate(now), endDate |-> Undef],
   displayProperties |-> [t |-> "object", currency |-> Str("USD"),
                          method |-> MethodLabel(state.method),
                          totalLabel |-> TotalLabel(state.method)]]

MigrateV2ResetHawl(state, now) ==
  [MigrateUnversioned(state, now) EXCEPT
     !.investments = IF state.investments.t = "array" THEN state.investments ELSE Arr(0),
     !.displayProperties.currency = IF TypeOf(state.displayProperties.currency) = "string"
                                    THEN state.displayProperties.currency ELSE Str("USD")]

MigrateV2(state, now) ==
  [t |-> "object",
   version |-> Str("2.0"),
   investments |-> IF state.investments.t = "array" THEN state.investments ELSE Arr(0),
   method |-> SanitizeMethod(state.method),
   marketValue |-> SanitizeNumber(state.marketValue),
   zakatableValue |-> SanitizeNumber(state.zakatableValue),
   companyData |-> OrElse(state.companyData, Undef),
   hawlStatus |-> [t |-> "object",
                   isComplete |-> IF TypeOf(state.hawlStatus.isComplete) = "boolean"
                                  THEN state.hawlStatus.isComplete ELSE Bool(FALSE),
                   startDate |-> OrElse(state.hawlStatus.startDate, IsoDate(now)),
                   endDate |-> state.hawlStatus.endDate],
   displayProperties |-> [t |-> "object",
                          currency |-> IF TypeOf(state.displayProperties.currency) = "string"
                                       THEN state.displayProperties.currency ELSE Str("USD"),
                          method |-> MethodLabel(state.method),
                          totalLabel |-> TotalLabel(state.method)]]

migratePassiveInvestments(state, now) ==
  IF state.t # "object" THEN UndefinedState
  ELSE IF ~Truthy(state.version) THEN MigrateUnversioned(state, now)
  ELSE IF state.version = Str("1.0") THEN MigrateV1(state, now)
  ELSE IF state.version = Str("2.0") THEN MigrateV2(state, now)
  ELSE UndefinedState

(***************************************************************************)
(* The store                                                               *)
(***************************************************************************)
VARIABLES
  activeStocks,             \* stockValues.activeStocks
  market_value,             \* stockValues.market_value
  zakatable_value,          \* stockValues.zakatable_value
  total_dividend_earnings,  \* stockValues.total_dividend_earnings
  passiveInvestments,       \* stockValues.passiveInvestments
  slicePassiveInvestments,  \* the slice's own passiveInvestments
  stockHawlMet,
  currency,                 \* the store's global currency
  pending,                  \* calls suspended on a price fetch, with their locals
  last,                     \* the call that ran last and how it ended
  calls,                    \* how many operations have been called so far
  hawlDefault,              \* DEFAULT_HAWL_STATUS.stocks, set outside this file
  raw, once, twice, stage, clock   \* a raw state, its migration, its re-migration

storeVars == <<activeStocks, market_value, zakatable_value, total_dividend_earnings,
               passiveInvestments, slicePassiveInvestments, stockHawlMet, currency>>
migVars == <<hawlDefault, raw, once, twice, stage, clock>>
vars == <<storeVars, pending, last, calls, migVars>>

\* Bounds of the model.
MaxPending == 2
MaxCalls == 3
MaxNow == 2

\* The passive block of createStocksSlice's initial state and of resetStockValues.
DefaultPassive(now) ==
  [t |-> "object", version |-> Str("2.0"), investments |-> PlaceholderRows(now),
   method |-> Str("quick"), marketValue |-> Num(0), zakatableValue |-> Num(0),
   companyData |-> Undef,
   hawlStatus |-> [t |-> "object", isComplete |-> Bool(FALSE), startDate |-> IsoDate(now), endDate |-> Undef],
   displayProperties |-> [t |-> "object", currency |-> Str("USD"), method |-> Str("30% Rule"),
                          totalLabel |-> Str("Total Investments")]]

\* What a price fetch gave the call that awaited it: nothing yet ("none"), a
\* rejection ("failed"), the price of a single quote ("quote"), or a batch
\* answer with entries for `symbols` ("batch").
Fetched(kind, price, symbols) ==
  [kind |-> kind, price |-> price, symbols |-> symbols, answer |-> <<>>, converter |-> "none",
   currency |-> Undef]
NoFetch == Fetched("none", Undef, {})
FetchFailed == Fetched("failed", Undef, {})

\* The arguments of a call of updatePassiveInvestments and the calculator that
\* getAssetType('stocks') gave it.
PassiveArgs(method, investments, companyData, calculations, calculator) ==
  [method |-> method, investments |-> investments, companyData |-> companyData,
   calculations |-> calculations, calculator |-> calculator]
NoPassiveArgs ==
  PassiveArgs(Undef, Undef, Undef, [marketValue |-> Undef, zakatableValue |-> Undef],
              [kind |-> "none", total |-> Undef, zakatable |-> Undef])

NoCall == [op |-> "none", outcome |-> "none", symbol |-> <<>>, shares |-> Undef, manualPrice |-> Undef,
           fetch |-> NoFetch, passive |-> NoPassiveArgs]
Call(op, outcome, symbol, shares, manualPrice) ==
  [op |-> op, outcome |-> outcome, symbol |-> symbol, shares |-> shares, manualPrice |-> manualPrice,
   fetch |-> NoFetch, passive |-> NoPassiveArgs]

\* The model follows the store through its first MaxCalls calls.
CanCall == calls < MaxCalls

\* A call of an operation begins: it runs to its return, its throw or its first await.
Begin(op, outcome, symbol, shares, manualPrice) ==
  /\ calls' = calls + 1
  /\ last' = Call(op, outcome, symbol, shares, manualPrice)

\* A call of updatePassiveInvestments with the arguments `args` runs to its return.
BeginPassive(args) ==
  /\ calls' = calls + 1
  /\ last' = [Call("updatePassive", "returned", <<>>, Undef, Undef) EXCEPT !.passive = args]

\* The batch answer `resp` given to a refresh, and what the converter did
\* ("none" without a currency store).
Batch(resp, converter) ==
  [kind |-> "batch", price |-> Undef, symbols |-> DOMAIN resp, answer |-> resp, converter |-> converter,
   currency |-> Undef]

\* The price given by getStockPrice(symbol, asked) when asked in the currency
\* `asked` (undefined when the call names none).
Quote(price, asked) == [Fetched("quote", price, {}) EXCEPT !.currency = asked]

\* A suspended call runs from its await, which gave `fetch`, to its return or throw.
End(op, outcome, symbol, shares, fetch) ==
  /\ calls' = calls
  /\ last' = [Call(op, outcome, symbol, shares, Undef) EXCEPT !.fetch = fetch]

\* A suspended call: its operation and the locals it captured before the await.
Suspended(op, symbol, shares, cur, symbols, conv) ==
  [op |-> op, symbol |-> symbol, shares |-> shares, cur |-> cur, symbols |-> symbols, conv |-> conv]

Suspend(r) == pending (+) SetToBag({r})
Resume(r) == pending (-) SetToBag({r})

InvalidAddSymbolOnly(symbol, shares) == symbol = <<>>

\* !symbol || shares <= 0
InvalidAdd(symbol, shares) == symbol = <<>> \/ (IsFinite(shares) /\ shares.n <= 0)

FindIndexCaseSensitive(stocks, symbol) ==
  LET hits == {i \in 1..Len(stocks) : stocks[i].symbol = symbol}
  IN IF hits = {} THEN 0 ELSE CHOOSE i \in hits : \A j \in hits : i <= j

\* findIndex(s => s.symbol.toUpperCase() === symbol.toUpperCase()); 0 when there is none
FindIndex(stocks, symbol) ==
  LET hits == {i \in 1..Len(stocks) : ToUpperCase(stocks[i].symbol) = ToUpperCase(symbol)}
  IN IF hits = {} THEN 0 ELSE CHOOSE i \in hits : \A j \in hits : i <= j

\* An add that writes the new holding over a list taken to be empty.
AddToStocksOverwriting(stocks, symbol, shares, price, lastUpdated) ==
  <<[symbol |-> ToUpperCase(symbol), shares |-> shares, currentPrice |-> price,
     marketValue |-> RoundCurrency(Times(shares, price)),
     zakatDue |-> ZakatOn(RoundCurrency(Times(shares, price))),
     lastUpdated |-> lastUpdated, currency |-> Undef, sourceCurrency |-> Undef]>>

\* The state update of addActiveStock, both for a fetched and for a manual price.
AddToStocks(stocks, symbol, shares, price, lastUpdated) ==
  LET marketValue == RoundCurrency(Times(shares, price))
      zakatDue == ZakatOn(marketValue)
      existingIndex == FindIndex(stocks, symbol)
  IN IF existingIndex > 0
     THEN [stocks EXCEPT ![existingIndex] =
             [@ EXCEPT !.shares = shares, !.currentPrice = price, !.marketValue = marketValue,
                       !.zakatDue = zakatDue, !.lastUpdated = lastUpdated]]
     ELSE Append(stocks, [symbol |-> ToUpperCase(symbol), shares |-> shares, currentPrice |-> price,
                          marketValue |-> marketValue, zakatDue |-> zakatDue,
                          lastUpdated |-> lastUpdated, currency |-> Undef, sourceCurrency |-> Undef])

\* The map of updateActiveStock's state update.
UpdateInStocks(stocks, symbol, shares, price, lastUpdated) ==
  LET marketValue == RoundCurrency(Times(shares, price))
      zakatDue == ZakatOn(marketValue)
  IN [i \in 1..Len(stocks) |->
        IF stocks[i].symbol = symbol
        THEN [stocks[i] EXCEPT !.shares = shares, !.currentPrice = price, !.marketValue = marketValue,
                               !.zakatDue = zakatDue, !.lastUpdated = lastUpdated]
        ELSE stocks[i]]

\* A total that is not recomputed: the cached market_value as it is.
SumMarketValueCached(stocks) == market_value

\* reduce((sum, s) => sum + (s.marketValue || 0), 0)
RECURSIVE SumMarketValueOr0(_)
SumMarketValueOr0(stocks) ==
  IF stocks = <<>> THEN Num(0)
  ELSE Plus(SumMarketValueOr0(SubSeq(stocks, 1, Len(stocks) - 1)),
            OrElse(stocks[Len(stocks)].marketValue, Num(0)))

\* reduce((sum, s) => sum + (Number.isFinite(s.marketValue) ? s.marketValue : 0), 0)
RECURSIVE SumFiniteMarketValue(_)
SumFiniteMarketValue(stocks) ==
  IF stocks = <<>> THEN Num(0)
  ELSE Plus(SumFiniteMarketValue(SubSeq(stocks, 1, Len(stocks) - 1)),
            IF IsFinite(stocks[Len(stocks)].marketValue) THEN stocks[Len(stocks)].marketValue ELSE Num(0))

\* A filter that compares the symbols without regard to case.
RECURSIVE FilterOutWithoutCase(_, _)
FilterOutWithoutCase(stocks, symbol) ==
  IF stocks = <<>> THEN <<>>
  ELSE IF ToUpperCase(Head(stocks).symbol) = ToUpperCase(symbol)
       THEN FilterOutWithoutCase(Tail(stocks), symbol)
  ELSE <<Head(stocks)>> \o FilterOutWithoutCase(Tail(stocks), symbol)

\* filter(s => s.symbol !== symbol)
RECURSIVE FilterOut(_, _)
FilterOut(stocks, symbol) ==
  IF stocks = <<>> THEN <<>>
  ELSE IF Head(stocks).symbol = symbol THEN FilterOut(Tail(stocks), symbol)
  ELSE <<Head(stocks)>> \o FilterOut(Tail(stocks), symbol)

(***************************************************************************)
(* Inputs: arguments of the calls and answers of the collaborators         *)
(***************************************************************************)
\* "", "a", "A", "B"
Symbols == {<<>>, <<97>>, <<65>>, <<66>>}
ShareCounts == {Num(0), Num(1), Num(3)}
ManualPrices == {Undef, Num(0), Num(1500)}
CurrencyArgs == {Undef, Str("EUR")}
\* What getStockPrice resolves to.
SingleQuotes == [price : {Num(1005), NaN}, lastUpdated : {Num(1)}]
\* One entry of what getBatchStockPrices resolves to.
BatchEntries ==
  {[price |-> Num(2505), currency |-> c, sourceCurrency |-> IF a THEN Str("USD") ELSE Undef,
    conversionApplied |-> a, lastUpdated |-> Num(1)] : c \in {Str("USD"), Str("EUR")}, a \in BOOLEAN}
\* The answers to a batch request for `symbols`: at most one entry per symbol.
Responses(symbols) == UNION {[S -> BatchEntries] : S \in SUBSET symbols}
\* What a call of convertAmount does.
ConverterOutcomes == {"throws", "same", "converted"}
Converters(found) == IF found THEN ConverterOutcomes ELSE {"none"}

StockValueKeys == {"market_value", "zakatable_value", "total_dividend_earnings"}
StockValueInputs == {Num(505), Num(-1000), NaN, Infinity}
\* The calculations argument of updatePassiveInvestments.
PassiveCalculations ==
  {[marketValue |-> Undef, zakatableValue |-> Undef],
   [marketValue |-> Num(1000), zakatableValue |-> Num(300)],
   [marketValue |-> Num(1000), zakatableValue |-> Infinity]}

\* new Date(stamp).toISOString() of a valid time stamp
ToISOString(stamp) == IsoDate(stamp.n)

\* A rate applied by convertAmount.
ConvertAmount(amount) == Times(Num(2), amount)

(***************************************************************************)
(* addActiveStock                                                          *)
(***************************************************************************)
AddActiveStock(symbol, shares, manualPrice, cur) ==
  /\ CanCall
  /\ \/ /\ InvalidAdd(symbol, shares)
        /\ Begin("add", "threw", symbol, shares, manualPrice)
        /\ UNCHANGED <<storeVars, pending, migVars>>
     \/ /\ ~InvalidAdd(symbol, shares)
        /\ ~Truthy(manualPrice)
        /\ BagCardinality(pending) < MaxPending
        \* currentCurrency = cur || state.currency || 'USD' goes to the price source
        \* only; symbol and shares are the locals the resumed call reads.
        /\ pending' = Suspend(Suspended("add", symbol, shares,
                                        OrElse(OrElse(cur, currency), Str("USD")), {}, FALSE))
        /\ Begin("add", "suspended", symbol, shares, manualPrice)
        /\ UNCHANGED <<storeVars, migVars>>
     \/ /\ ~InvalidAdd(symbol, shares)
        /\ Truthy(manualPrice)
        /\ \E now \in {MaxNow} :
             activeStocks' = AddToStocks(activeStocks, symbol, shares, manualPrice, IsoDate(now))
        /\ Begin("add", "returned", symbol, shares, manualPrice)
        /\ UNCHANGED <<market_value, zakatable_value, total_dividend_earnings, passiveInvestments,
                       slicePassiveInvestments, stockHawlMet, currency, pending, migVars>>

\* addActiveStock resumed after `await getStockPrice(symbol, currentCurrency)`.
AddActiveStockResumed(r) ==
  /\ r.op = "add"
  /\ pending' = Resume(r)
  /\ \/ /\ End("add", "threw", r.symbol, r.shares, FetchFailed)
        /\ UNCHANGED <<storeVars, migVars>>
     \/ /\ \E q \in SingleQuotes :
             /\ activeStocks' = AddToStocks(activeStocks, r.symbol, r.shares, q.price,
                                            ToISOString(q.lastUpdated))
             /\ End("add", "returned", r.symbol, r.shares, Quote(q.price, r.cur))
        /\ UNCHANGED <<market_value, zakatable_value, total_dividend_earnings, passiveInvestments,
                       slicePassiveInvestments, stockHawlMet, currency, migVars>>

(***************************************************************************)
(* updateActiveStock                                                       *)
(***************************************************************************)
UpdateActiveStock(symbol, shares) ==
  /\ CanCall
  /\ BagCardinality(pending) < MaxPending
  /\ pending' = Suspend(Suspended("update", symbol, shares, Undef, {}, FALSE))
  /\ Begin("update", "suspended", symbol, shares, Undef)
  /\ UNCHANGED <<storeVars, migVars>>

\* An update that takes every fetched price.
InvalidPriceNever(price) == FALSE

\* typeof price !== 'number' || !isFinite(price)
InvalidPrice(price) == TypeOf(price) # "number" \/ ~IsFinite(price)

\* updateActiveStock resumed after `await getStockPrice(symbol)`.
UpdateActiveStockResumed(r) ==
  /\ r.op = "update"
  /\ pending' = Resume(r)
  /\ \/ /\ End("update", "threw", r.symbol, r.shares, FetchFailed)
        /\ UNCHANGED <<storeVars, migVars>>
     \/ /\ \E q \in SingleQuotes :
             /\ InvalidPrice(q.price)
             /\ End("update", "threw", r.symbol, r.shares, Quote(q.price, Undef))
        /\ UNCHANGED <<storeVars, migVars>>
     \/ /\ \E q \in SingleQuotes :
             /\ ~InvalidPrice(q.price)
             /\ activeStocks' = UpdateInStocks(activeStocks, r.symbol, r.shares, q.price,
                                               ToISOString(q.lastUpdated))
             /\ End("update", "returned", r.symbol, r.shares, Quote(q.price, Undef))
        /\ market_value' = SumMarketValueOr0(activeStocks')
        /\ zakatable_value' = IF stockHawlMet THEN SumMarketValueOr0(activeStocks') ELSE Num(0)
        /\ UNCHANGED <<total_dividend_earnings, passiveInvestments, slicePassiveInvestments,
                       stockHawlMet, currency, migVars>>

(***************************************************************************)
(* removeActiveStock                                                       *)
(***************************************************************************)
RemoveActiveStock(symbol) ==
  /\ CanCall
  /\ activeStocks' = FilterOut(activeStocks, symbol)
  /\ Begin("remove", "returned", symbol, Undef, Undef)
  /\ UNCHANGED <<market_value, zakatable_value, total_dividend_earnings, passiveInvestments,
                 slicePassiveInvestments, stockHawlMet, currency, pending, migVars>>

(***************************************************************************)
(* updateStockPrices                                                       *)
(***************************************************************************)
RepriceStaleZakat(stock, shares, price, lastUpdated, cur, sourceCurrency) ==
  [stock EXCEPT !.currentPrice = price,
                !.marketValue = RoundCurrency(Times(shares, price)),
                !.lastUpdated = lastUpdated,
                !.currency = cur,
                !.sourceCurrency = sourceCurrency]

\* The holding an entry of the batch answer gives: ...stock with the new price,
\* valuation, time stamp and currencies.
Reprice(stock, shares, price, lastUpdated, cur, sourceCurrency) ==
  [stock EXCEPT !.currentPrice = price,
                !.marketValue = RoundCurrency(Times(shares, price)),
                !.zakatDue = ZakatOn(RoundCurrency(Times(shares, price))),
                !.lastUpdated = lastUpdated,
                !.currency = cur,
                !.sourceCurrency = sourceCurrency]

\* A refresh that stamps the requested currency on every price a currency
\* store was asked to convert, converted or not.
RefreshStockStampsTarget(stock, resp, cur, converter) ==
  IF ToUpperCase(stock.symbol) \notin DOMAIN resp THEN stock
  ELSE LET updated == resp[ToUpperCase(stock.symbol)]
       IN IF updated.conversionApplied /\ updated.currency = cur
          THEN Reprice(stock, stock.shares, updated.price, updated.lastUpdated,
                       updated.currency, updated.sourceCurrency)
          ELSE IF converter # "none" /\ updated.currency # cur
          THEN Reprice(stock, stock.shares,
                       IF converter = "converted" THEN Times(Num(2), updated.price) ELSE updated.price,
                       updated.lastUpdated, cur, updated.currency)
          ELSE Reprice(stock, stock.shares, updated.price, updated.lastUpdated,
                       updated.currency, updated.sourceCurrency)

\* A refresh that writes the requested currency on the holdings it got no price for.
RefreshStockMarksMissing(stock, resp, cur, converter) ==
  IF ToUpperCase(stock.symbol) \notin DOMAIN resp THEN [stock EXCEPT !.currency = cur]
  ELSE LET updated == resp[ToUpperCase(stock.symbol)]
       IN Reprice(stock, stock.shares, updated.price, updated.lastUpdated,
                  updated.currency, updated.sourceCurrency)

\* The map callback of updateStockPrices for one holding.  `converter` is "none"
\* when no currency store was found, else what convertAmount does.
RefreshStock(stock, resp, cur, converter) ==
  IF ToUpperCase(stock.symbol) \notin DOMAIN resp THEN stock
  ELSE LET updated == resp[ToUpperCase(stock.symbol)]
       IN IF updated.conversionApplied /\ updated.currency = cur
          THEN Reprice(stock, stock.shares, updated.price, updated.lastUpdated,
                       updated.currency, updated.sourceCurrency)
          ELSE IF /\ converter \in {"same", "converted"}
                  /\ updated.currency # cur
                  /\ (IF converter = "same" THEN updated.price ELSE ConvertAmount(updated.price))
                       # updated.price
          THEN Reprice(stock, stock.shares, ConvertAmount(updated.price), updated.lastUpdated,
                       cur, updated.currency)
          ELSE Reprice(stock, stock.shares, updated.price, updated.lastUpdated,
                       updated.currency, updated.sourceCurrency)

UpdateStockPrices(targetCurrency, hasConverter) ==
  /\ CanCall
  /\ \/ /\ activeStocks = <<>>
        /\ Begin("refresh", "returned", <<>>, Undef, Undef)
        /\ UNCHANGED <<storeVars, pending, migVars>>
     \/ /\ activeStocks # <<>>
        /\ BagCardinality(pending) < MaxPending
        /\ pending' = Suspend(Suspended("refresh", <<>>, Undef,
                                        OrElse(OrElse(targetCurrency, currency), Str("USD")),
                                        {activeStocks[i].symbol : i \in 1..Len(activeStocks)},
                                        hasConverter))
        /\ Begin("refresh", "suspended", <<>>, Undef, Undef)
        /\ UNCHANGED <<storeVars, migVars>>

\* updateStockPrices resumed after `await getBatchStockPrices(symbols, currentCurrency)`.
UpdateStockPricesResumed(r, resp, converter) ==
  /\ r.op = "refresh"
  /\ pending' = Resume(r)
  /\ \/ /\ End("refresh", "threw", <<>>, Undef, FetchFailed)
        /\ UNCHANGED <<storeVars, migVars>>
     \/ /\ activeStocks' = [i \in 1..Len(activeStocks) |->
                               RefreshStock(activeStocks[i], resp, r.cur, converter)]
        /\ currency' = r.cur
        /\ End("refresh", "returned", <<>>, Undef, Batch(resp, converter))
        /\ UNCHANGED <<market_value, zakatable_value, total_dividend_earnings, passiveInvestments,
                       slicePassiveInvestments, stockHawlMet, migVars>>

(***************************************************************************)
(* Legacy actions                                                          *)
(***************************************************************************)
SetStockHawl(value) ==
  /\ CanCall
  /\ stockHawlMet' = value
  /\ Begin("setStockHawl", "returned", <<>>, Undef, Undef)
  /\ UNCHANGED <<activeStocks, market_value, zakatable_value, total_dividend_earnings,
                 passiveInvestments, slicePassiveInvestments, currency, pending, migVars>>

\* setStockValue(key, value) for the numeric keys this slice reads back.
SetStockValue(key, value) ==
  /\ CanCall
  /\ market_value' = IF key = "market_value" THEN value ELSE market_value
  /\ zakatable_value' = IF key = "zakatable_value" THEN value ELSE zakatable_value
  /\ total_dividend_earnings' = IF key = "total_dividend_earnings" THEN value ELSE total_dividend_earnings
  /\ Begin("setStockValue", "returned", <<>>, Undef, Undef)
  /\ UNCHANGED <<activeStocks, passiveInvestments, slicePassiveInvestments, stockHawlMet,
                 currency, pending, migVars>>

ResetStockValues ==
  /\ CanCall
  /\ activeStocks' = <<>>
  /\ market_value' = Num(0)
  /\ zakatable_value' = Num(0)
  /\ total_dividend_earnings' = Num(0)
  /\ \E now \in 1..MaxNow : passiveInvestments' = DefaultPassive(now)
  /\ stockHawlMet' = hawlDefault
  /\ slicePassiveInvestments' = UndefinedState
  /\ Begin("reset", "returned", <<>>, Undef, Undef)
  /\ UNCHANGED <<currency, pending, migVars>>

(***************************************************************************)
(* updatePassiveInvestments                                                *)
(***************************************************************************)
\* A draft that starts a new Hawl at every update.
PassiveDraftNewHawl(currentState, method, investments, companyData, calculations, now) ==
  [t |-> "object", version |-> Str("2.0"), method |-> method,
   investments |-> IF investments.t = "array" THEN investments
                   ELSE OrElse(currentState.investments, Arr(0)),
   marketValue |-> IF TypeOf(calculations.marketValue) = "number" THEN calculations.marketValue
                   ELSE OrElse(currentState.marketValue, Num(0)),
   zakatableValue |-> IF TypeOf(calculations.zakatableValue) = "number" THEN calculations.zakatableValue
                      ELSE OrElse(currentState.zakatableValue, Num(0)),
   companyData |-> Undef,
   hawlStatus |-> [t |-> "object", isComplete |-> Bool(FALSE), startDate |-> IsoDate(now),
                   endDate |-> Undef],
   displayProperties |-> [t |-> "object",
                          currency |-> OrElse(currentState.displayProperties.currency, Str("USD")),
                          method |-> MethodLabel(method),
                          totalLabel |-> TotalLabel(method)]]

\* The draft built from the arguments and the current passive block.
PassiveDraft(currentState, method, investments, companyData, calculations, now) ==
  [t |-> "object",
   version |-> Str("2.0"),
   method |-> method,
   investments |-> IF investments.t = "array" THEN investments
                   ELSE OrElse(currentState.investments, Arr(0)),
   marketValue |-> IF TypeOf(calculations.marketValue) = "number" THEN calculations.marketValue
                   ELSE OrElse(currentState.marketValue, Num(0)),
   zakatableValue |-> IF TypeOf(calculations.zakatableValue) = "number" THEN calculations.zakatableValue
                      ELSE OrElse(currentState.zakatableValue, Num(0)),
   companyData |-> IF Truthy(companyData)
                   THEN [t |-> "object", n |-> companyData.n, s |-> "withDisplayProperties"]
                   ELSE Undef,
   hawlStatus |-> IF currentState.hawlStatus.t = "object" THEN currentState.hawlStatus
                  ELSE [t |-> "object", isComplete |-> Bool(FALSE), startDate |-> IsoDate(now),
                        endDate |-> Undef],
   displayProperties |-> [t |-> "object",
                          currency |-> OrElse(currentState.displayProperties.currency, Str("USD")),
                          method |-> MethodLabel(method),
                          totalLabel |-> TotalLabel(method)]]

\* What getAssetType('stocks') gives: no calculator, one that throws, or one
\* whose calculateTotal / calculateZakatable return these numbers.
Calculators ==
  {[kind |-> "none", total |-> Undef, zakatable |-> Undef],
   [kind |-> "throws", total |-> Undef, zakatable |-> Undef],
   [kind |-> "ok", total |-> Num(7000), zakatable |-> Num(2000)]}

\* An update that leaves the mirrored passive values in the cached pair.
UpdatePassiveInvestmentsMirrored(method, investments, companyData, calculations, calculator) ==
  /\ CanCall
  /\ calculator.kind # "throws"
  /\ \E now \in {MaxNow} :
       /\ passiveInvestments' = migratePassiveInvestments(
                                  PassiveDraft(passiveInvestments, method, investments, companyData,
                                               calculations, now), now)
       /\ slicePassiveInvestments' = passiveInvestments'
  /\ market_value' = passiveInvestments'.marketValue
  /\ zakatable_value' = passiveInvestments'.zakatableValue
  /\ BeginPassive(PassiveArgs(method, investments, companyData, calculations, calculator))
  /\ UNCHANGED <<activeStocks, total_dividend_earnings, stockHawlMet, currency, pending, migVars>>

UpdatePassiveInvestments(method, investments, companyData, calculations, calculator) ==
  /\ CanCall
  /\ \E now \in {MaxNow} :
    LET migratedState == migratePassiveInvestments(
                           PassiveDraft(passiveInvestments, method, investments, companyData,
                                        calculations, now), now)
    IN \/ /\ (migratedState.t # "object" \/ calculator.kind = "throws")
          /\ BeginPassive(PassiveArgs(method, investments, companyData, calculations, calculator))
          /\ UNCHANGED <<storeVars, pending, migVars>>
       \/ /\ migratedState.t = "object"
          /\ calculator.kind # "throws"
          /\ passiveInvestments' = migratedState
          /\ slicePassiveInvestments' = migratedState
          /\ market_value' = IF calculator.kind = "ok" THEN calculator.total
                             ELSE migratedState.marketValue
          /\ zakatable_value' = IF calculator.kind = "ok" THEN calculator.zakatable
                                ELSE migratedState.zakatableValue
          /\ BeginPassive(PassiveArgs(method, investments, companyData, calculations, calculator))
          /\ UNCHANGED <<activeStocks, total_dividend_earnings, stockHawlMet, currency,
                         pending, migVars>>

(***************************************************************************)
(* Getters                                                                 *)
(***************************************************************************)
getTotalStocks ==
  LET total == Plus(Plus(SumFiniteMarketValue(activeStocks),
                         OrElse(passiveInvestments.marketValue, Num(0))),
                    OrElse(total_dividend_earnings, Num(0)))
  IN IF IsFinite(total) THEN RoundCurrency(total) ELSE Num(0)

getTotalZakatableStocksUngated ==
  LET total == Plus(Plus(SumFiniteMarketValue(activeStocks),
                         OrElse(passiveInvestments.zakatableValue, Num(0))),
                    OrElse(total_dividend_earnings, Num(0)))
  IN IF IsFinite(total) THEN RoundCurrency(total) ELSE Num(0)

getTotalZakatableStocks ==
  IF ~stockHawlMet THEN Num(0)
  ELSE LET total == Plus(Plus(SumFiniteMarketValue(activeStocks),
                              OrElse(passiveInvestments.zakatableValue, Num(0))),
                         OrElse(total_dividend_earnings, Num(0)))
       IN IF IsFinite(total) THEN RoundCurrency(total) ELSE Num(0)

\* A test for a number other than 0 and NaN.
NonZero(v) == v.t = "number" /\ Truthy(v)

\* v > 0 for a number v
GreaterThan0(v) == v.t = "number" /\ (v.s = "Infinity" \/ (v.s = "" /\ v.n > 0))

\* total > 0 ? roundCurrency((value / total) * 100) : 0, for a finite total
Percentage(value, total) ==
  IF ~GreaterThan0(total) THEN Num(0)
  ELSE CASE value.t # "number" -> NaN
         [] value.s # "" -> value
         [] OTHER -> Num(((20000 * value.n + total.n) \div (2 * total.n)) * 10)

\* One entry of the breakdown's items.
Item(value, isZakatable, zakatable, zakatDue, label, tooltip, percentage) ==
  [value |-> value, isZakatable |-> isZakatable, zakatable |-> zakatable, zakatDue |-> zakatDue,
   label |-> label, tooltip |-> tooltip, percentage |-> percentage]

getStocksBreakdown ==
  LET total == getTotalStocks
      zakatable == getTotalZakatableStocks
      activeValue == SumFiniteMarketValue(activeStocks)
      passiveValue == passiveInvestments.marketValue
      passiveZakatable == passiveInvestments.zakatableValue
      method == passiveInvestments.method
      dividendValue == OrElse(total_dividend_earnings, Num(0))
      keys == (IF Len(activeStocks) > 0 THEN {"active_trading"} ELSE {})
              \cup (IF Truthy(passiveInvestments) THEN {"passive_investments"} ELSE {})
              \cup (IF GreaterThan0(dividendValue) THEN {"dividends"} ELSE {})
      item(k) ==
        CASE k = "active_trading" ->
               Item(activeValue, stockHawlMet,
                    IF stockHawlMet THEN activeValue ELSE Num(0),
                    IF stockHawlMet THEN ZakatOn(activeValue) ELSE Num(0),
                    "Active Trading", "Full market value is zakatable",
                    Percentage(activeValue, total))
          [] k = "passive_investments" ->
               Item(passiveValue, stockHawlMet,
                    IF stockHawlMet THEN passiveZakatable ELSE Num(0),
                    IF stockHawlMet THEN ZakatOn(passiveZakatable) ELSE Num(0),
                    IF method = Str("quick") THEN "Passive Investments (30% Rule)"
                    ELSE "Passive Investments (CRI Method)",
                    IF method = Str("quick") THEN "30% of market value is zakatable"
                    ELSE "Based on company financials",
                    Percentage(passiveValue, total))
          [] k = "dividends" ->
               Item(dividendValue, stockHawlMet,
                    IF stockHawlMet THEN dividendValue ELSE Num(0),
                    IF stockHawlMet THEN ZakatOn(dividendValue) ELSE Num(0),
                    "Dividend Earnings", "Full dividend amount is zakatable",
                    Percentage(dividendValue, total))
          [] OTHER ->
               Item(Num(0), FALSE, Num(0), Num(0), "Stocks", "No stocks added yet", Num(0))
  IN [total |-> total, zakatable |-> zakatable, zakatDue |-> ZakatOn(zakatable),
      items |-> [k \in (IF keys = {} THEN {"stocks"} ELSE keys) |-> item(k)]]

\* NISAB.GOLD and NISAB.SILVER: the weights of gold and silver, in grams.
NISAB_GOLD == 85
NISAB_SILVER == 595

\* state.metalPrices of the metals slice, absent or with a price per gram in mills.
NoMetalPrices == [t |-> "undefined", gold |-> Undef, silver |-> Undef]
MetalPricesInputs ==
  {NoMetalPrices} \cup [t : {"object"}, gold : {Num(0), Num(100)}, silver : {Num(1), Num(5), Num(20)}]

\* A nisab threshold that is the higher of the two.
MathMax(a, b) ==
  CASE a.t # "number" \/ b.t # "number" -> NaN
    [] a.s = "NaN" \/ b.s = "NaN" -> NaN
    [] a.s = "Infinity" \/ b.s = "Infinity" -> Infinity
    [] OTHER -> IF a.n >= b.n THEN a ELSE b

\* Math.min(a, b)
MathMin(a, b) ==
  CASE a.t # "number" \/ b.t # "number" -> NaN
    [] a.s = "NaN" \/ b.s = "NaN" -> NaN
    [] a.s = "Infinity" -> b
    [] b.s = "Infinity" -> a
    [] OTHER -> IF a.n <= b.n THEN a ELSE b

\* a >= b on numbers
GreaterOrEqual(a, b) ==
  CASE a.t # "number" \/ b.t # "number" -> FALSE
    [] a.s = "NaN" \/ b.s = "NaN" -> FALSE
    [] a.s = "Infinity" -> TRUE
    [] b.s = "Infinity" -> FALSE
    [] OTHER -> a.n >= b.n

\* meetsNisabThreshold() when the metals slice holds `statePrices`.
meetsNisabThreshold(statePrices) ==
  LET metalPrices == IF Truthy(statePrices) THEN statePrices
                     ELSE [t |-> "object", gold |-> Num(0), silver |-> Num(0)]
      goldNisab == Times(Num(NISAB_GOLD), metalPrices.gold)
      silverNisab == Times(Num(NISAB_SILVER), metalPrices.silver)
      nisabThreshold == MathMin(goldNisab, silverNisab)
      totalStockValue == getTotalStocks
  IN GreaterOrEqual(totalStockValue, nisabThreshold)

(***************************************************************************)
(* Migration of a raw persisted state, and of its own result               *)
(***************************************************************************)
RawHawlStatus ==
  {NoHawlStatus,
   [t |-> "object", isComplete |-> Bool(TRUE), startDate |-> IsoDate(0), endDate |-> Undef],
   [t |-> "object", isComplete |-> Str("yes"), startDate |-> Undef, endDate |-> IsoDate(0)]}

RawDisplayProperties ==
  {NoDisplayProperties,
   [t |-> "object", currency |-> Str("EUR"), method |-> Str("30% Rule"),
    totalLabel |-> Str("Total Investments")],
   [t |-> "object", currency |-> Str("EUR"), method |-> Str("CRI Method"),
    totalLabel |-> Str("Total Company Assets")],
   [t |-> "object", currency |-> Num(1), method |-> Str("stale"), totalLabel |-> Str("stale")]}

RawInputs ==
  {NullState} \cup
  [t : {"object"},
   version : {Undef, Null, Num(0), Num(2), Str(""), Str("1.0"), Str("2.0"), Str("3.0")},
   investments : {Undef, Arr(1), Str("rows")},
   method : {Undef, Str("quick"), Str("detailed"), Str("other")},
   marketValue : {Undef, Num(1000), Str("1000")},
   zakatableValue : {Undef, Num(300)},
   companyData : {Undef, Null, Obj(1)},
   hawlStatus : RawHawlStatus,
   displayProperties : RawDisplayProperties]

MigrateOnce ==
  /\ stage = "input"
  /\ \E now \in clock..MaxNow :
       /\ once' = migratePassiveInvestments(raw, now)
       /\ clock' = now
  /\ stage' = "once"
  /\ UNCHANGED <<storeVars, pending, last, calls, hawlDefault, raw, twice>>

MigrateAgain ==
  /\ stage = "once"
  /\ once.t = "object"
  /\ \E now \in clock..MaxNow :
       /\ twice' = migratePassiveInvestments(once, now)
       /\ clock' = now
  /\ stage' = "twice"
  /\ UNCHANGED <<storeVars, pending, last, calls, hawlDefault, raw, once>>

(***************************************************************************)
(* Specifications                                                          *)
(***************************************************************************)
InitStore ==
  /\ activeStocks = <<>>
  /\ market_value = Num(0)
  /\ zakatable_value = Num(0)
  /\ total_dividend_earnings = Num(0)
  /\ passiveInvestments = UndefinedState
  /\ slicePassiveInvestments = DefaultPassive(1)
  /\ hawlDefault \in BOOLEAN
  /\ stockHawlMet = hawlDefault
  /\ currency = Undef
  /\ pending = EmptyBag
  /\ last = NoCall
  /\ calls = 0

Init ==
  /\ InitStore
  /\ raw = UndefinedState
  /\ once = UndefinedState
  /\ twice = UndefinedState
  /\ stage = "none"
  /\ clock = 1

NextHoldings ==
  \/ \E symbol \in Symbols, shares \in ShareCounts, manualPrice \in ManualPrices, cur \in CurrencyArgs :
       AddActiveStock(symbol, shares, manualPrice, cur)
  \/ \E r \in BagToSet(pending) : AddActiveStockResumed(r)
  \/ \E symbol \in Symbols, shares \in ShareCounts : UpdateActiveStock(symbol, shares)
  \/ \E r \in BagToSet(pending) : UpdateActiveStockResumed(r)
  \/ \E symbol \in Symbols : RemoveActiveStock(symbol)
  \/ \E targetCurrency \in CurrencyArgs, hasConverter \in BOOLEAN :
       UpdateStockPrices(targetCurrency, hasConverter)
  \/ \E r \in BagToSet(pending) :
       \E resp \in Responses(r.symbols), converter \in Converters(r.conv) :
         UpdateStockPricesResumed(r, resp, converter)

Next == NextHoldings

Spec == Init /\ [][Next]_vars

InitMig ==
  /\ InitStore
  /\ raw \in RawInputs
  /\ once = UndefinedState
  /\ twice = UndefinedState
  /\ stage = "input"
  /\ clock = 1

\* The operations that feed the totals, with the fetches they wait for.
NextTotals ==
  \/ \E symbol \in {<<>>, <<65>>, <<66>>}, shares \in {Num(3)}, manualPrice \in {Undef, Num(1500)},
        cur \in {Undef} :
       AddActiveStock(symbol, shares, manualPrice, cur)
  \/ \E r \in BagToSet(pending) : AddActiveStockResumed(r)
  \/ \E value \in BOOLEAN : SetStockHawl(value)
  \/ \E key \in StockValueKeys, value \in StockValueInputs : SetStockValue(key, value)
  \/ ResetStockValues
  \/ \E method \in {Str("quick"), Str("detailed")}, investments \in {Undef, Arr(2)},
        companyData \in {Undef}, calculations \in PassiveCalculations, calculator \in Calculators :
       UpdatePassiveInvestments(method, investments, companyData, calculations, calculator)

SpecTotals == Init /\ [][NextTotals]_vars

\* The operations that wait for a price, with the mutations that can complete
\* while they wait.
NextConcurrent ==
  \/ \E symbol \in {<<65>>, <<66>>}, shares \in {Num(1), Num(3)}, manualPrice \in {Undef, Num(1500)},
        cur \in {Undef} :
       AddActiveStock(symbol, shares, manualPrice, cur)
  \/ \E r \in BagToSet(pending) : AddActiveStockResumed(r)
  \/ \E symbol \in {<<65>>}, shares \in {Num(3)} : UpdateActiveStock(symbol, shares)
  \/ \E r \in BagToSet(pending) : UpdateActiveStockResumed(r)
  \/ \E symbol \in {<<65>>} : RemoveActiveStock(symbol)
  \/ \E targetCurrency \in {Undef}, hasConverter \in {FALSE} :
       UpdateStockPrices(targetCurrency, hasConverter)
  \/ \E r \in BagToSet(pending) :
       \E resp \in Responses(r.symbols), converter \in Converters(r.conv) :
         UpdateStockPricesResumed(r, resp, converter)
  \/ \E key \in {"total_dividend_earnings"}, value \in {Num(505)} : SetStockValue(key, value)
  \/ \E method \in {Str("detailed")}, investments \in {Undef}, companyData \in {Undef},
        calculations \in {[marketValue |-> Num(1000), zakatableValue |-> Num(300)]},
        calculator \in {[kind |-> "none", total |-> Undef, zakatable |-> Undef]} :
       UpdatePassiveInvestments(method, investments, companyData, calculations, calculator)

SpecConcurrent == Init /\ [][NextConcurrent]_vars

NextMig == MigrateOnce \/ MigrateAgain

SpecMig == InitMig /\ [][NextMig]_vars

(***************************************************************************)
(* Properties                                                              *)
(***************************************************************************)
Holdings == {activeStocks[i] : i \in 1..Len(activeStocks)}
HeldAs(symbol) == {i \in 1..Len(activeStocks) : ToUpperCase(activeStocks[i].symbol) = ToUpperCase(symbol)}

\* C1: in every reachable state, whatever the interleaving of addActiveStock,
\* updateActiveStock, removeActiveStock and updateStockPrices, every holding has
\* marketValue = round(shares x currentPrice) and zakatDue = round(marketValue x
\* ZAKAT_RATE) for its own shares and currentPrice.
C1_DerivedFieldsFresh ==
  \A h \in Holdings :
    /\ h.marketValue = RoundCurrency(Times(h.shares, h.currentPrice))
    /\ h.zakatDue = ZakatOn(h.marketValue)

\* A refresh has just repriced a holding of 3 shares while another call is still
\* suspended on its fetch.
C1_Witness ==
  /\ last.op = "refresh" /\ last.outcome = "returned"
  /\ BagCardinality(pending) > 0
  /\ \E h \in Holdings :
       /\ h.shares = Num(3) /\ h.currentPrice = Num(2505)
       /\ h.marketValue = Num(7520) /\ h.zakatDue = Num(190)

\* C2: the holdings hold at most one entry per symbol compared without case, every
\* stored symbol is in upper case, and after an add has written there is exactly
\* one holding of its symbol, with the shares of that add.
C2_OneHoldingPerSymbol ==
  /\ \A i, j \in 1..Len(activeStocks) :
       ToUpperCase(activeStocks[i].symbol) = ToUpperCase(activeStocks[j].symbol) => i = j
  /\ \A h \in Holdings : h.symbol = ToUpperCase(h.symbol)
  /\ (last.op = "add" /\ last.outcome = "returned") =>
       /\ Cardinality(HeldAs(last.symbol)) = 1
       /\ \A i \in HeldAs(last.symbol) : activeStocks[i].shares = last.shares

\* An add of "a", resumed from its fetch, has written over the holding "A" while
\* another add of the same symbol is still suspended.
C2_Witness ==
  /\ last.op = "add" /\ last.outcome = "returned" /\ last.symbol = <<97>>
  /\ last.manualPrice = Undef
  /\ \E h \in Holdings : h.symbol = <<65>> /\ h.shares = last.shares
  /\ \E r \in BagToSet(pending) : r.op = "add" /\ ToUpperCase(r.symbol) = <<65>> /\ r.shares # last.shares

\* C3: for every input object with no version or version "1.0", whatever the types
\* of its other fields, the migration gives a version "2.0" state whose investments
\* is an array, method is quick or detailed, marketValue and zakatableValue are
\* numbers, hawlStatus.isComplete is false with a startDate, and currency is "USD".
C3_LegacyMigratesToV2 ==
  (stage # "input" /\ raw.t = "object" /\ raw.version \in {Undef, Str("1.0")}) =>
    /\ once.t = "object"
    /\ once.version = Str("2.0")
    /\ once.investments.t = "array"
    /\ once.method \in {Str("quick"), Str("detailed")}
    /\ once.marketValue.t = "number"
    /\ once.zakatableValue.t = "number"
    /\ once.hawlStatus.isComplete = Bool(FALSE)
    /\ once.hawlStatus.startDate.t = "string" /\ Truthy(once.hawlStatus.startDate)
    /\ once.displayProperties.currency = Str("USD")

\* A version "1.0" state with ill-typed investments, method and marketValue has
\* been migrated.
C3_Witness ==
  /\ stage = "once"
  /\ raw.version = Str("1.0")
  /\ raw.investments = Str("rows") /\ raw.method = Str("other") /\ raw.marketValue = Str("1000")
  /\ once.marketValue = Num(0)

\* C4 (as claimed): for every input whose version is anything other than absent,
\* "1.0" or "2.0" the migration returns undefined.
C4_UnknownVersionGivesUndefined ==
  (stage # "input" /\ raw.t = "object" /\ raw.version \notin {Undef, Str("1.0"), Str("2.0")}) =>
    once = UndefinedState

\* C5 (as claimed): migrating the result of a migration gives it back equal in
\* every field.
C5_MigrationIdempotent == stage = "twice" => twice = once

\* A well-typed canonical version "2.0" state.
Canonical(x) ==
  /\ x.t = "object"
  /\ x.version = Str("2.0")
  /\ x.investments.t = "array"
  /\ x.method \in {Str("quick"), Str("detailed")}
  /\ x.marketValue.t = "number" /\ x.zakatableValue.t = "number"
  /\ x.companyData.t \in {"undefined", "object"}
  /\ x.hawlStatus.t = "object"
  /\ x.hawlStatus.isComplete.t = "boolean"
  /\ x.hawlStatus.startDate.t = "string" /\ x.hawlStatus.startDate.s = "ISO"
  /\ x.hawlStatus.endDate.t \in {"undefined", "string"}
  /\ x.displayProperties.t = "object"
  /\ x.displayProperties.currency.t = "string"
  /\ x.method = Str("quick") =>
       /\ x.displayProperties.method = Str("30% Rule")
       /\ x.displayProperties.totalLabel = Str("Total Investments")
  /\ x.method = Str("detailed") =>
       /\ x.displayProperties.method = Str("CRI Method")
       /\ x.displayProperties.totalLabel = Str("Total Company Assets")

\* C6: migrating a well-typed canonical version "2.0" state gives it back field
\* for field.
C6_CanonicalIsFixedPoint == (stage # "input" /\ Canonical(raw)) => once = raw

\* A canonical state with a complete Hawl, the detailed method, company data and
\* the currency EUR has been migrated.
C6_Witness ==
  /\ stage = "once"
  /\ Canonical(raw)
  /\ raw.hawlStatus.isComplete = Bool(TRUE)
  /\ raw.method = Str("detailed")
  /\ raw.companyData = Obj(1)
  /\ raw.displayProperties.currency = Str("EUR")

RECURSIVE PlainSum(_)
PlainSum(stocks) ==
  IF stocks = <<>> THEN 0 ELSE stocks[1].marketValue.n + PlainSum(Tail(stocks))

AllTermsFinite ==
  /\ \A h \in Holdings : IsFinite(h.marketValue)
  /\ passiveInvestments.t = "object" => IsFinite(passiveInvestments.zakatableValue)
  /\ IsFinite(total_dividend_earnings)

\* C7: while the Hawl-met flag is false getTotalZakatableStocks is 0, whatever the
\* holdings, the passive zakatable value and the dividends; while it is true, it
\* is the rounded sum of the holdings' market values, the passive block's
\* zakatableValue (0 without a block) and the dividend earnings.
C7_ZakatableGatedOnHawl ==
  /\ ~stockHawlMet => getTotalZakatableStocks = Num(0)
  /\ (stockHawlMet /\ AllTermsFinite) =>
       getTotalZakatableStocks =
         Num(((PlainSum(activeStocks)
               + (IF passiveInvestments.t = "object" THEN passiveInvestments.zakatableValue.n ELSE 0)
               + total_dividend_earnings.n + 5) \div 10) * 10)

\* The flag is false while there are a holding, a passive zakatable value and
\* dividends.
C7_Witness ==
  /\ ~stockHawlMet
  /\ \E h \in Holdings : h.marketValue = Num(4500)
  /\ passiveInvestments.zakatableValue = Num(300)
  /\ total_dividend_earnings = Num(505)

\* C8: addActiveStock called with an empty symbol or with shares <= 0 throws,
\* fetches no price and leaves the whole store state unchanged.
C8_InvalidAddRejected ==
  [][(calls' = calls + 1 /\ last'.op = "add"
      /\ (last'.symbol = <<>> \/ (IsFinite(last'.shares) /\ last'.shares.n <= 0)))
     => (last'.outcome = "threw" /\ pending' = pending /\ UNCHANGED storeVars)]_vars

\* An add with 0 shares has thrown while there is a holding and a suspended call.
C8_Witness ==
  /\ last.op = "add" /\ last.outcome = "threw"
  /\ last.symbol # <<>> /\ last.shares = Num(0)
  /\ activeStocks # <<>>
  /\ BagCardinality(pending) > 0

\* C9 (as claimed): addActiveStock called with any numeric manualPrice does not
\* call the price source, and the holding's currentPrice is that manualPrice.
C9_ManualPriceSkipsFetch ==
  (last.op = "add" /\ last.manualPrice.t = "number" /\ last.outcome # "threw") =>
    /\ last.outcome = "returned"
    /\ \A i \in HeldAs(last.symbol) : activeStocks[i].currentPrice = last.manualPrice

\* C10 (as claimed): the numeric fields of every holding are finite in every
\* reachable state.
C10_HoldingsFinite ==
  \A h \in Holdings :
    IsFinite(h.shares) /\ IsFinite(h.currentPrice) /\ IsFinite(h.marketValue) /\ IsFinite(h.zakatDue)

\* A call resumes from its fetch in this step.
Resumes == calls' = calls /\ pending' # pending

\* C11: when the batch fetch of updateStockPrices fails, or the fetch of
\* updateActiveStock fails or gives a non-finite price, the call throws and no
\* holding, cached total, currency or other store field is changed.
C11_FailedFetchChangesNothing ==
  [][(/\ Resumes
      /\ last'.op \in {"update", "refresh"}
      /\ \/ last'.fetch.kind = "failed"
         \/ last'.op = "update" /\ last'.fetch.kind = "quote" /\ ~IsFinite(last'.fetch.price))
     => (last'.outcome = "threw" /\ UNCHANGED storeVars)]_vars

\* An update of a held symbol was given the price NaN and has thrown, while
\* another call is still suspended.
C11_Witness ==
  /\ last.op = "update" /\ last.outcome = "threw"
  /\ last.fetch.kind = "quote" /\ last.fetch.price = NaN
  /\ \E h \in Holdings : h.symbol = last.symbol /\ h.shares # last.shares
  /\ BagCardinality(pending) > 0

\* C12: a refresh whose batch fetch succeeded does not fail, and every holding
\* for which the answer has no entry (symbols compared without case) keeps all
\* of its fields: shares, currentPrice, marketValue, zakatDue, lastUpdated,
\* currency and sourceCurrency.
C12_UnansweredHoldingsUntouched ==
  [][(Resumes /\ last'.op = "refresh" /\ last'.fetch.kind = "batch")
     => /\ last'.outcome = "returned"
        /\ Len(activeStocks') = Len(activeStocks)
        /\ \A i \in 1..Len(activeStocks) :
             ToUpperCase(activeStocks[i].symbol) \notin last'.fetch.symbols
               => activeStocks'[i] = activeStocks[i]]_vars

\* A refresh got a price for "A" only: "A" is repriced and "B", added at the
\* price 1.500, is as it was.
C12_Witness ==
  /\ last.op = "refresh" /\ last.outcome = "returned"
  /\ last.fetch.symbols = {<<65>>}
  /\ \E h \in Holdings : h.symbol = <<65>> /\ h.currentPrice = Num(2505)
  /\ \E h \in Holdings : h.symbol = <<66>> /\ h.currentPrice = Num(1500) /\ h.currency = Undef

\* C13: a call resumed from its fetch writes on the store as it is at the
\* resumption.  Dividends, the passive block and the Hawl flag stay as they
\* are; no holding disappears or changes place; an add or update changes no
\* holding but the one of its symbol; a refresh keeps the list and every
\* holding's shares, and values each repriced holding with the shares it has
\* at the resumption.
C13_ResumedWriteUsesCurrentState ==
  [][(Resumes /\ last'.outcome = "returned")
     => /\ UNCHANGED <<total_dividend_earnings, passiveInvestments, slicePassiveInvestments,
                       stockHawlMet>>
        /\ Len(activeStocks') >= Len(activeStocks)
        /\ \A i \in 1..Len(activeStocks) : activeStocks'[i].symbol = activeStocks[i].symbol
        /\ last'.op = "add" =>
             /\ Len(activeStocks') <= Len(activeStocks) + 1
             /\ \A i \in 1..Len(activeStocks) :
                  ToUpperCase(activeStocks[i].symbol) # ToUpperCase(last'.symbol)
                    => activeStocks'[i] = activeStocks[i]
        /\ last'.op = "update" =>
             /\ Len(activeStocks') = Len(activeStocks)
             /\ \A i \in 1..Len(activeStocks) :
                  activeStocks[i].symbol # last'.symbol => activeStocks'[i] = activeStocks[i]
        /\ last'.op = "refresh" =>
             /\ Len(activeStocks') = Len(activeStocks)
             /\ \A i \in 1..Len(activeStocks) :
                  /\ activeStocks'[i].shares = activeStocks[i].shares
                  /\ activeStocks'[i].marketValue =
                       RoundCurrency(Times(activeStocks[i].shares, activeStocks'[i].currentPrice))]_vars

\* A refresh was answered for "A", which was removed while the refresh was
\* suspended: the resumed refresh has not brought the holding back.
C13_Witness ==
  /\ last.op = "refresh" /\ last.outcome = "returned"
  /\ <<65>> \in last.fetch.symbols
  /\ activeStocks = <<>>

\* The sum of the percentages of the items `keys`, all finite.
RECURSIVE SumPercentages(_, _)
SumPercentages(items, keys) ==
  IF keys = {} THEN 0
  ELSE LET k == CHOOSE x \in keys : TRUE
       IN items[k].percentage.n + SumPercentages(items, keys \ {k})

\* C14 (as claimed): in the result of getStocksBreakdown, when the total is
\* greater than 0 the items' percentages are numbers that sum to at most 100,
\* allowing half a cent of rounding for each item, and when the total is 0
\* every percentage is 0.
C14_PercentagesSumTo100 ==
  LET b == getStocksBreakdown
  IN /\ b.total = Num(0) => \A k \in DOMAIN b.items : b.items[k].percentage = Num(0)
     /\ GreaterThan0(b.total) =>
          /\ \A k \in DOMAIN b.items : IsFinite(b.items[k].percentage)
          /\ SumPercentages(b.items, DOMAIN b.items) <= 100000 + 5 * Cardinality(DOMAIN b.items)

RECURSIVE PlainFiniteSum(_)
PlainFiniteSum(stocks) ==
  IF stocks = <<>> THEN 0
  ELSE (IF IsFinite(stocks[1].marketValue) THEN stocks[1].marketValue.n ELSE 0)
       + PlainFiniteSum(Tail(stocks))

\* The amount a term of a total counts for: 0 when it is missing or not finite.
FiniteOr0(v) == IF IsFinite(v) THEN v.n ELSE 0

\* C15 (as claimed): getTotalStocks is the rounded sum of the holdings' market
\* values, the passive block's marketValue and the dividend earnings, where a
\* missing or non-finite term counts 0 and the other terms are still counted.
C15_TotalCountsFiniteTerms ==
  getTotalStocks =
    Num(((PlainFiniteSum(activeStocks) + FiniteOr0(passiveInvestments.marketValue)
          + FiniteOr0(total_dividend_earnings) + 5) \div 10) * 10)

\* C16: for every pair of metal prices, meetsNisabThreshold is true exactly
\* when getTotalStocks is at least the lower of gold weight x gold price and
\* silver weight x silver price.
C16_NisabUsesLowerThreshold ==
  \A mp \in MetalPricesInputs :
    mp.t = "object" =>
      LET gold == NISAB_GOLD * mp.gold.n
          silver == NISAB_SILVER * mp.silver.n
          lower == IF gold <= silver THEN gold ELSE silver
      IN meetsNisabThreshold(mp) <=> (getTotalStocks.n >= lower)

\* The total is 4.50, the gold threshold 8.50 and the silver threshold 2.975:
\* the total is between the two and the nisab is met.
C16_Witness ==
  /\ getTotalStocks = Num(4500)
  /\ meetsNisabThreshold([t |-> "object", gold |-> Num(100), silver |-> Num(5)])
  /\ ~meetsNisabThreshold([t |-> "object", gold |-> Num(100), silver |-> Num(20)])

\* C17 (as claimed): in every state the migration returns, the display labels
\* are those of the returned method: "30% Rule" and "Total Investments" for
\* quick, "CRI Method" and "Total Company Assets" for detailed.
C17_LabelsFollowReturnedMethod ==
  (stage # "input" /\ once.t = "object") =>
    /\ once.method = Str("quick") =>
         /\ once.displayProperties.method = Str("30% Rule")
         /\ once.displayProperties.totalLabel = Str("Total Investments")
    /\ once.method = Str("detailed") =>
         /\ once.displayProperties.method = Str("CRI Method")
         /\ once.displayProperties.totalLabel = Str("Total Company Assets")

\* C18 (as claimed): a successful updateActiveStock(s, n) gives n shares and the
\* fetched price to the holding whose symbol is s up to letter case.
C18_UpdateMatchesWithoutCase ==
  (last.op = "update" /\ last.outcome = "returned") =>
    \A i \in HeldAs(last.symbol) :
      /\ activeStocks[i].shares = last.shares
      /\ activeStocks[i].currentPrice = last.fetch.price

\* C19 (as claimed): after every completed operation the cached market_value
\* is the total of the holdings' market values and the cached zakatable_value
\* is that total when the Hawl-met flag is true and 0 otherwise.
C19_CachedPairInSync ==
  last.outcome = "returned" =>
    /\ market_value = SumFiniteMarketValue(activeStocks)
    /\ zakatable_value = IF stockHawlMet THEN SumFiniteMarketValue(activeStocks) ELSE Num(0)

\* C20: after a successful updateActiveStock, whether or not its symbol matched
\* a holding, market_value is the sum of the market values of all holdings, and
\* zakatable_value is that sum when the Hawl-met flag is true and 0 otherwise
\* (for holdings whose market values are all finite).
C20_UpdateRecomputesCachedPair ==
  (last.op = "update" /\ last.outcome = "returned"
   /\ \A h \in Holdings : IsFinite(h.marketValue)) =>
    /\ market_value = Num(PlainSum(activeStocks))
    /\ zakatable_value = IF stockHawlMet THEN Num(PlainSum(activeStocks)) ELSE Num(0)

\* An update of "a" has returned without matching the holding "A", added
\* before it, and the cached market_value is now the worth of that holding.
C20_Witness ==
  /\ last.op = "update" /\ last.outcome = "returned" /\ last.symbol = <<97>>
  /\ \E h \in Holdings : h.symbol = <<65>> /\ IsFinite(h.marketValue) /\ h.marketValue.n > 0
  /\ market_value = Num(PlainSum(activeStocks))
  /\ market_value # Num(0)
  /\ stockHawlMet /\ zakatable_value = market_value

\* C21: removeActiveStock(symbol) removes exactly the holdings whose stored
\* symbol equals symbol character for character, keeps the others in their
\* order, and changes no other field of the store; with a symbol that no
\* holding has in that exact spelling it changes nothing.
C21_RemoveExactMatchOnly ==
  [][(calls' = calls + 1 /\ last'.op = "remove")
     => LET symbol == last'.symbol
            Kept(h) == h.symbol # symbol
        IN /\ last'.outcome = "returned"
           /\ activeStocks' = SelectSeq(activeStocks, Kept)
           /\ (\A h \in Holdings : h.symbol # symbol) => activeStocks' = activeStocks
           /\ UNCHANGED <<market_value, zakatable_value, total_dividend_earnings,
                          passiveInvestments, slicePassiveInvestments, stockHawlMet, currency>>
           /\ pending' = pending]_vars

\* A remove of "a" has returned and the holding "A" is still there.
C21_Witness ==
  /\ last.op = "remove" /\ last.outcome = "returned" /\ last.symbol = <<97>>
  /\ \E h \in Holdings : h.symbol = <<65>>

\* C22: in a refresh, for a matched holding whose entry is in another currency
\* than the target and was not converted by the source: when the converter
\* gives a different amount the holding gets the converted price, the target
\* currency and the entry's currency as sourceCurrency; when there is no
\* converter, or it throws or gives the amount back, the holding gets the
\* entry's price, currency and sourceCurrency.  The refresh returns in all cases.
C22_ConversionFallback ==
  [][(Resumes /\ last'.op = "refresh" /\ last'.fetch.kind = "batch")
     => /\ last'.outcome = "returned"
        /\ \A i \in 1..Len(activeStocks) :
             LET key == ToUpperCase(activeStocks[i].symbol)
                 after == activeStocks'[i]
                 target == currency'
             IN (key \in last'.fetch.symbols
                 /\ ~last'.fetch.answer[key].conversionApplied
                 /\ last'.fetch.answer[key].currency # target)
                => LET entry == last'.fetch.answer[key]
                   IN IF last'.fetch.converter = "converted"
                      THEN /\ after.currentPrice = Num(2 * entry.price.n)
                           /\ after.currency = target
                           /\ after.sourceCurrency = entry.currency
                      ELSE /\ after.currentPrice = entry.price
                           /\ after.currency = entry.currency
                           /\ after.sourceCurrency = entry.sourceCurrency]_vars

\* A refresh to EUR got an unconverted USD price and the converter threw: the
\* holding has the raw price in USD while the store's currency is EUR.
C22_Witness ==
  /\ last.op = "refresh" /\ last.outcome = "returned"
  /\ last.fetch.converter = "throws"
  /\ currency = Str("EUR")
  /\ \E h \in Holdings :
       /\ ToUpperCase(h.symbol) \in last.fetch.symbols
       /\ ~last.fetch.answer[ToUpperCase(h.symbol)].conversionApplied
       /\ h.currency = Str("USD") /\ h.currentPrice = Num(2505)

\* C23 (as claimed, for an add that fetched its price): when the add has
\* written the price it fetched in the currency it asked for, the holding of
\* its symbol has no currency stamp or the stamp of that currency, never the
\* stamp of an earlier price in another currency.
C23_CurrencyStampFollowsPrice ==
  [][(Resumes /\ last'.op = "add" /\ last'.outcome = "returned")
     => \A i \in 1..Len(activeStocks') :
          ToUpperCase(activeStocks'[i].symbol) = ToUpperCase(last'.symbol)
            => activeStocks'[i].currency \in {Undef, last'.fetch.currency}]_vars

\* C24: the items of getStocksBreakdown are never empty: active_trading is
\* there exactly when there is a holding, passive_investments exactly when
\* there is a passive block, dividends exactly when the dividend earnings are
\* above 0, and the zero-valued placeholder stocks exactly when none of the
\* three is.
C24_BreakdownCategories ==
  LET items == getStocksBreakdown.items
      keys == DOMAIN items
      held == Len(activeStocks) >= 1
      block == passiveInvestments.t = "object"
      paid == /\ total_dividend_earnings.t = "number"
              /\ total_dividend_earnings.s # "NaN"
              /\ (total_dividend_earnings.s = "Infinity" \/ total_dividend_earnings.n > 0)
  IN /\ keys # {}
     /\ keys \subseteq {"active_trading", "passive_investments", "dividends", "stocks"}
     /\ "active_trading" \in keys <=> held
     /\ "passive_investments" \in keys <=> block
     /\ "dividends" \in keys <=> paid
     /\ "stocks" \in keys <=> ~(held \/ block \/ paid)
     /\ "stocks" \in keys =>
          /\ items["stocks"].value = Num(0) /\ items["stocks"].zakatable = Num(0)
          /\ items["stocks"].zakatDue = Num(0) /\ items["stocks"].percentage = Num(0)

\* There are a holding, a passive block and dividends, and the breakdown has
\* exactly their three categories.
C24_Witness ==
  /\ Len(activeStocks) >= 1
  /\ passiveInvestments.t = "object"
  /\ total_dividend_earnings = Num(505)
  /\ DOMAIN getStocksBreakdown.items = {"active_trading", "passive_investments", "dividends"}

\* A default passive block: version 2.0, quick method, one empty row, zero
\* values, Hawl not complete.
IsDefaultBlock(x) ==
  /\ x.t = "object"
  /\ x.version = Str("2.0")
  /\ x.method = Str("quick")
  /\ x.investments.t = "array" /\ x.investments.s = "placeholder"
  /\ x.marketValue = Num(0) /\ x.zakatableValue = Num(0)
  /\ x.hawlStatus.isComplete = Bool(FALSE)

\* C25 (as claimed): in the initial store state and right after
\* resetStockValues the aggregate holds a default passive block, so that in
\* both states the two totals are 0 and the breakdown has the one category
\* passive_investments.
C25_InitialEqualsReset ==
  (calls = 0 \/ last.op = "reset") =>
    /\ IsDefaultBlock(passiveInvestments)
    /\ getTotalStocks = Num(0)
    /\ getTotalZakatableStocks = Num(0)
    /\ DOMAIN getStocksBreakdown.items = {"passive_investments"}

\* The call of updatePassiveInvestments made in this step went through: its
\* calculator, if any, did not throw.
PassiveUpdateSucceeds ==
  calls' = calls + 1 /\ last'.op = "updatePassive" /\ last'.passive.calculator.kind # "throws"

\* C26: after a successful updatePassiveInvestments(method, data, calculations)
\* the stored passive block has the method of the call and that method's
\* labels, data.investments if given and else the prior list, the calculations'
\* values where they are numbers and else the prior values, else 0, and the
\* prior block's hawlStatus when there was a block; the holdings and the
\* dividend earnings are as before.
C26_PassiveUpdateStoresDraft ==
  [][PassiveUpdateSucceeds
     => LET a == last'.passive
            prior == passiveInvestments
            new == passiveInvestments'
        IN /\ new.t = "object"
           /\ slicePassiveInvestments' = new
           /\ new.method = a.method
           /\ new.displayProperties.method =
                (IF a.method = Str("quick") THEN Str("30% Rule") ELSE Str("CRI Method"))
           /\ new.displayProperties.totalLabel =
                (IF a.method = Str("quick") THEN Str("Total Investments")
                 ELSE Str("Total Company Assets"))
           /\ new.investments = (IF a.investments.t = "array" THEN a.investments
                                 ELSE IF prior.t = "object" THEN prior.investments ELSE Arr(0))
           /\ new.marketValue = (IF a.calculations.marketValue.t = "number"
                                 THEN a.calculations.marketValue
                                 ELSE IF prior.t = "object" THEN prior.marketValue ELSE Num(0))
           /\ new.zakatableValue = (IF a.calculations.zakatableValue.t = "number"
                                    THEN a.calculations.zakatableValue
                                    ELSE IF prior.t = "object" THEN prior.zakatableValue ELSE Num(0))
           /\ prior.t = "object" => new.hawlStatus = prior.hawlStatus
           /\ UNCHANGED <<activeStocks, total_dividend_earnings>>]_vars

\* An update to the detailed method with no calculations has kept the values
\* of an earlier update and the Hawl started by an earlier reset.
C26_Witness ==
  /\ last.op = "updatePassive" /\ last.passive.calculator.kind # "throws"
  /\ last.passive.method = Str("detailed")
  /\ last.passive.calculations.marketValue = Undef
  /\ passiveInvestments.method = Str("detailed")
  /\ passiveInvestments.marketValue = Num(1000)
  /\ passiveInvestments.hawlStatus.startDate = IsoDate(1)

\* C27: updatePassiveInvestments never throws.  When its calculator throws the
\* store is left as it was; when it has a calculator that answers, market_value
\* and zakatable_value end as the calculator's calculateTotal and
\* calculateZakatable results, not as the passive block's own values.
C27_PassiveUpdateFailsSafe ==
  [][(calls' = calls + 1 /\ last'.op = "updatePassive")
     => /\ last'.outcome = "returned"
        /\ pending' = pending
        /\ last'.passive.calculator.kind = "throws" => UNCHANGED storeVars
        /\ last'.passive.calculator.kind = "ok" =>
             /\ market_value' = last'.passive.calculator.total
             /\ zakatable_value' = last'.passive.calculator.zakatable
             /\ passiveInvestments'.t = "object"]_vars

\* An update with the values 1.000 and 0.300 has gone through a calculator
\* answering 7.000 and 2.000: the block has the former, the cached pair the latter.
C27_Witness ==
  /\ last.op = "updatePassive" /\ last.passive.calculator.kind = "ok"
  /\ passiveInvestments.marketValue = Num(1000)
  /\ passiveInvestments.zakatableValue = Num(300)
  /\ market_value = Num(7000)
  /\ zakatable_value = Num(2000)

====
